---- MODULE Spec2Model ----
(***************************************************************************)
(* Model of pix2text_bridge.py: the command-line bridge that acquires an   *)
(* image (clipboard or file), loads config.yaml, constructs the Pix2Text   *)
(* engine, calls it and prints one JSON object.                            *)
(*                                                                         *)
(* Python values are tagged records ([type |-> "str", s |-> ...]); a dict  *)
(* is a sequence of <<key, value>> pairs in insertion order, which is the  *)
(* order json.dumps writes them in.  A Python str is the sequence of its   *)
(* Unicode code points, so that json.dumps and repr can be computed for    *)
(* every character; Codes("...") turns an ASCII literal into that form.    *)
(* Only exceptions derived from Exception are modelled (the handlers are   *)
(* `except Exception`).                                                    *)
(***************************************************************************)
EXTENDS Integers, Sequences, FiniteSets, TLC

\* Longest sys.argv considered (script name included).
MaxArgc == 3

\* The printable ASCII characters in code point order: U+0020 .. U+005F and
\* U+0061 .. U+007E (a string literal of this language cannot hold U+0060).
AsciiLow == " !\"#$%&'()*+,-./0123456789:;<=>?@ABCDEFGHIJKLMNOPQRSTUVWXYZ[\\]^_"
AsciiHigh == "abcdefghijklmnopqrstuvwxyz{|}~"

\* ord(c) for a one-character ASCII literal.
Ord(c) ==
    CASE c = "\t" -> 9
      [] c = "\n" -> 10
      [] c = "\f" -> 12
      [] c = "\r" -> 13
      [] \E i \in 1..Len(AsciiLow) : SubSeq(AsciiLow, i, i) = c ->
            31 + (CHOOSE i \in 1..Len(AsciiLow) : SubSeq(AsciiLow, i, i) = c)
      [] OTHER ->
            96 + (CHOOSE i \in 1..Len(AsciiHigh) : SubSeq(AsciiHigh, i, i) = c)

\* The Python str written as the ASCII literal s: its code points.
Codes(s) == [i \in 1..Len(s) |-> Ord(SubSeq(s, i, i))]

\* sys.argv[0]
Script == Codes("pix2text_bridge.py")

\* Words that can follow the script name on the command line.  The last is
\* U+0378 (an unassigned code point) followed by ".png".
Words == {Codes("clipboard"), Codes("file"), Codes("foo"), Codes("img.png"),
          Codes("it's.png"), <<888>> \o Codes(".png")}

\* All command lines: the script name followed by 0 .. MaxArgc-1 words.
Argvs == UNION {{<<Script>> \o w : w \in [1..n -> Words]} : n \in 0..(MaxArgc - 1)}

------------------------------------------------------------------------------
\* Python values

PyNone == [type |-> "none"]
PyTrue == [type |-> "bool", b |-> TRUE]
PyStr(s) == [type |-> "str", s |-> s]
PyInt(n) == [type |-> "int", n |-> n]
PyList == [type |-> "list"]
PyDict(items) == [type |-> "dict", items |-> items]
\* a local name that has not been assigned yet
Unset == [type |-> "unset"]
\* a PIL image object
PyImage == [type |-> "image"]
\* a constructed Pix2Text engine
PyEngine == [type |-> "engine"]

\* type(v).__name__, as it appears in exception messages
TypeName(v) ==
    CASE v.type = "none" -> "NoneType"
      [] v.type = "str" -> "str"
      [] v.type = "int" -> "int"
      [] v.type = "list" -> "list"
      [] v.type = "bool" -> "bool"
      [] OTHER -> v.type

\* key in d   (d is a sequence of <<key, value>> pairs)
dict_has(d, k) == \E i \in DOMAIN d : d[i][1] = k

\* d.get(k, default)
dict_get(d, k, default) ==
    IF dict_has(d, k) THEN d[CHOOSE i \in DOMAIN d : d[i][1] = k][2] ELSE default

\* the set of keys of d
dict_keys(d) == {d[i][1] : i \in DOMAIN d}

\* No exception pending / an exception of class cls with str(e) = msg
\* (msg a code point sequence).
NoExc == [raised |-> FALSE, cls |-> "", msg |-> <<>>]
Exc(cls, msg) == [raised |-> TRUE, cls |-> cls, msg |-> msg]

------------------------------------------------------------------------------
\* json.dumps (ensure_ascii, default separators) on the dicts main prints.
\* Strings are code point sequences; the output is one too.

\* The code point of the lower-case hexadecimal digit d (0..15).
HexDigit(d) == IF d < 10 THEN 48 + d ELSE 87 + d

\* The digits of '{:04x}'.format(n), n < 65536.
Hex4(n) == << HexDigit(n \div 4096), HexDigit((n \div 256) % 16),
              HexDigit((n \div 16) % 16), HexDigit(n % 16) >>

\* \uXXXX
JsonU(n) == <<92, 117>> \o Hex4(n)

\* What json.dumps writes for one character (encode_basestring_ascii).
json_escape_char(c) ==
    CASE c = 34 -> <<92, 34>>
      [] c = 92 -> <<92, 92>>
      [] c = 10 -> <<92, 110>>
      [] c = 13 -> <<92, 114>>
      [] c = 9 -> <<92, 116>>
      [] c = 12 -> <<92, 102>>
      [] c = 8 -> <<92, 98>>
      [] c >= 32 /\ c <= 126 -> <<c>>
      [] c < 65536 -> JsonU(c)
      [] OTHER -> JsonU(55296 + ((c - 65536) \div 1024))
                  \o JsonU(56320 + ((c - 65536) % 1024))

RECURSIVE json_escape(_)
json_escape(s) ==
    IF Len(s) = 0 THEN <<>>
    ELSE json_escape_char(Head(s)) \o json_escape(Tail(s))

json_value(v) ==
    CASE v.type = "bool" -> (IF v.b THEN Codes("true") ELSE Codes("false"))
      [] v.type = "none" -> Codes("null")
      [] OTHER -> <<34>> \o json_escape(v.s) \o <<34>>

\* Dict keys are ASCII literals of the script.
RECURSIVE json_items(_)
json_items(d) ==
    IF Len(d) = 0 THEN <<>>
    ELSE <<34>> \o json_escape(Codes(d[1][1])) \o Codes("\": ") \o json_value(d[1][2])
         \o (IF Len(d) > 1 THEN Codes(", ") ELSE <<>>) \o json_items(Tail(d))

json_dumps(d) == Codes("{") \o json_items(d) \o Codes("}")

------------------------------------------------------------------------------
\* repr(s) of a str, as the I/O exceptions embed the path in their message.

\* The code points str.isprintable rejects, as inclusive ranges in ascending
\* order: the Unicode 14.0.0 categories Cc, Cf, Cs, Co, Cn, Zl, Zp and Zs other
\* than the ASCII space (the tables of CPython 3.11).
NonPrintableRanges == <<
    <<0, 31>>, <<127, 160>>, <<173, 173>>, <<888, 889>>, <<896, 899>>,
    <<907, 907>>, <<909, 909>>, <<930, 930>>, <<1328, 1328>>, <<1367, 1368>>,
    <<1419, 1420>>, <<1424, 1424>>, <<1480, 1487>>, <<1515, 1518>>, <<1525, 1541>>,
    <<1564, 1564>>, <<1757, 1757>>, <<1806, 1807>>, <<1867, 1868>>, <<1970, 1983>>,
    <<2043, 2044>>, <<2094, 2095>>, <<2111, 2111>>, <<2140, 2141>>, <<2143, 2143>>,
    <<2155, 2159>>, <<2191, 2199>>, <<2274, 2274>>, <<2436, 2436>>, <<2445, 2446>>,
    <<2449, 2450>>, <<2473, 2473>>, <<2481, 2481>>, <<2483, 2485>>, <<2490, 2491>>,
    <<2501, 2502>>, <<2505, 2506>>, <<2511, 2518>>, <<2520, 2523>>, <<2526, 2526>>,
    <<2532, 2533>>, <<2559, 2560>>, <<2564, 2564>>, <<2571, 2574>>, <<2577, 2578>>,
    <<2601, 2601>>, <<2609, 2609>>, <<2612, 2612>>, <<2615, 2615>>, <<2618, 2619>>,
    <<2621, 2621>>, <<2627, 2630>>, <<2633, 2634>>, <<2638, 2640>>, <<2642, 2648>>,
    <<2653, 2653>>, <<2655, 2661>>, <<2679, 2688>>, <<2692, 2692>>, <<2702, 2702>>,
    <<2706, 2706>>, <<2729, 2729>>, <<2737, 2737>>, <<2740, 2740>>, <<2746, 2747>>,
    <<2758, 2758>>, <<2762, 2762>>, <<2766, 2767>>, <<2769, 2783>>, <<2788, 2789>>,
    <<2802, 2808>>, <<2816, 2816>>, <<2820, 2820>>, <<2829, 2830>>, <<2833, 2834>>,
    <<2857, 2857>>, <<2865, 2865>>, <<2868, 2868>>, <<2874, 2875>>, <<2885, 2886>>,
    <<2889, 2890>>, <<2894, 2900>>, <<2904, 2907>>, <<2910, 2910>>, <<2916, 2917>>,
    <<2936, 2945>>, <<2948, 2948>>, <<2955, 2957>>, <<2961, 2961>>, <<2966, 2968>>,
    <<2971, 2971>>, <<2973, 2973>>, <<2976, 2978>>, <<2981, 2983>>, <<2987, 2989>>,
    <<3002, 3005>>, <<3011, 3013>>, <<3017, 3017>>, <<3022, 3023>>, <<3025, 3030>>,
    <<3032, 3045>>, <<3067, 3071>>, <<3085, 3085>>, <<3089, 3089>>, <<3113, 3113>>,
    <<3130, 3131>>, <<3141, 3141>>, <<3145, 3145>>, <<3150, 3156>>, <<3159, 3159>>,
    <<3163, 3164>>, <<3166, 3167>>, <<3172, 3173>>, <<3184, 3190>>, <<3213, 3213>>,
    <<3217, 3217>>, <<3241, 3241>>, <<3252, 3252>>, <<3258, 3259>>, <<3269, 3269>>,
    <<3273, 3273>>, <<3278, 3284>>, <<3287, 3292>>, <<3295, 3295>>, <<3300, 3301>>,
    <<3312, 3312>>, <<3315, 3327>>, <<3341, 3341>>, <<3345, 3345>>, <<3397, 3397>>,
    <<3401, 3401>>, <<3408, 3411>>, <<3428, 3429>>, <<3456, 3456>>, <<3460, 3460>>,
    <<3479, 3481>>, <<3506, 3506>>, <<3516, 3516>>, <<3518, 3519>>, <<3527, 3529>>,
    <<3531, 3534>>, <<3541, 3541>>, <<3543, 3543>>, <<3552, 3557>>, <<3568, 3569>>,
    <<3573, 3584>>, <<3643, 3646>>, <<3676, 3712>>, <<3715, 3715>>, <<3717, 3717>>,
    <<3723, 3723>>, <<3748, 3748>>, <<3750, 3750>>, <<3774, 3775>>, <<3781, 3781>>,
    <<3783, 3783>>, <<3790, 3791>>, <<3802, 3803>>, <<3808, 3839>>, <<3912, 3912>>,
    <<3949, 3952>>, <<3992, 3992>>, <<4029, 4029>>, <<4045, 4045>>, <<4059, 4095>>,
    <<4294, 4294>>, <<4296, 4300>>, <<4302, 4303>>, <<4681, 4681>>, <<4686, 4687>>,
    <<4695, 4695>>, <<4697, 4697>>, <<4702, 4703>>, <<4745, 4745>>, <<4750, 4751>>,
    <<4785, 4785>>, <<4790, 4791>>, <<4799, 4799>>, <<4801, 4801>>, <<4806, 4807>>,
    <<4823, 4823>>, <<4881, 4881>>, <<4886, 4887>>, <<4955, 4956>>, <<4989, 4991>>,
    <<5018, 5023>>, <<5110, 5111>>, <<5118, 5119>>, <<5760, 5760>>, <<5789, 5791>>,
    <<5881, 5887>>, <<5910, 5918>>, <<5943, 5951>>, <<5972, 5983>>, <<5997, 5997>>,
    <<6001, 6001>>, <<6004, 6015>>, <<6110, 6111>>, <<6122, 6127>>, <<6138, 6143>>,
    <<6158, 6158>>, <<6170, 6175>>, <<6265, 6271>>, <<6315, 6319>>, <<6390, 6399>>,
    <<6431, 6431>>, <<6444, 6447>>, <<6460, 6463>>, <<6465, 6467>>, <<6510, 6511>>,
    <<6517, 6527>>, <<6572, 6575>>, <<6602, 6607>>, <<6619, 6621>>, <<6684, 6685>>,
    <<6751, 6751>>, <<6781, 6782>>, <<6794, 6799>>, <<6810, 6815>>, <<6830, 6831>>,
    <<6863, 6911>>, <<6989, 6991>>, <<7039, 7039>>, <<7156, 7163>>, <<7224, 7226>>,
    <<7242, 7244>>, <<7305, 7311>>, <<7355, 7356>>, <<7368, 7375>>, <<7419, 7423>>,
    <<7958, 7959>>, <<7966, 7967>>, <<8006, 8007>>, <<8014, 8015>>, <<8024, 8024>>,
    <<8026, 8026>>, <<8028, 8028>>, <<8030, 8030>>, <<8062, 8063>>, <<8117, 8117>>,
    <<8133, 8133>>, <<8148, 8149>>, <<8156, 8156>>, <<8176, 8177>>, <<8181, 8181>>,
    <<8191, 8207>>, <<8232, 8239>>, <<8287, 8303>>, <<8306, 8307>>, <<8335, 8335>>,
    <<8349, 8351>>, <<8385, 8399>>, <<8433, 8447>>, <<8588, 8591>>, <<9255, 9279>>,
    <<9291, 9311>>, <<11124, 11125>>, <<11158, 11158>>, <<11508, 11512>>, <<11558, 11558>>,
    <<11560, 11564>>, <<11566, 11567>>, <<11624, 11630>>, <<11633, 11646>>, <<11671, 11679>>,
    <<11687, 11687>>, <<11695, 11695>>, <<11703, 11703>>, <<11711, 11711>>, <<11719, 11719>>,
    <<11727, 11727>>, <<11735, 11735>>, <<11743, 11743>>, <<11870, 11903>>, <<11930, 11930>>,
    <<12020, 12031>>, <<12246, 12271>>, <<12284, 12288>>, <<12352, 12352>>, <<12439, 12440>>,
    <<12544, 12548>>, <<12592, 12592>>, <<12687, 12687>>, <<12772, 12783>>, <<12831, 12831>>,
    <<42125, 42127>>, <<42183, 42191>>, <<42540, 42559>>, <<42744, 42751>>, <<42955, 42959>>,
    <<42962, 42962>>, <<42964, 42964>>, <<42970, 42993>>, <<43053, 43055>>, <<43066, 43071>>,
    <<43128, 43135>>, <<43206, 43213>>, <<43226, 43231>>, <<43348, 43358>>, <<43389, 43391>>,
    <<43470, 43470>>, <<43482, 43485>>, <<43519, 43519>>, <<43575, 43583>>, <<43598, 43599>>,
    <<43610, 43611>>, <<43715, 43738>>, <<43767, 43776>>, <<43783, 43784>>, <<43791, 43792>>,
    <<43799, 43807>>, <<43815, 43815>>, <<43823, 43823>>, <<43884, 43887>>, <<44014, 44015>>,
    <<44026, 44031>>, <<55204, 55215>>, <<55239, 55242>>, <<55292, 63743>>, <<64110, 64111>>,
    <<64218, 64255>>, <<64263, 64274>>, <<64280, 64284>>, <<64311, 64311>>, <<64317, 64317>>,
    <<64319, 64319>>, <<64322, 64322>>, <<64325, 64325>>, <<64451, 64466>>, <<64912, 64913>>,
    <<64968, 64974>>, <<64976, 65007>>, <<65050, 65055>>, <<65107, 65107>>, <<65127, 65127>>,
    <<65132, 65135>>, <<65141, 65141>>, <<65277, 65280>>, <<65471, 65473>>, <<65480, 65481>>,
    <<65488, 65489>>, <<65496, 65497>>, <<65501, 65503>>, <<65511, 65511>>, <<65519, 65531>>,
    <<65534, 65535>>, <<65548, 65548>>, <<65575, 65575>>, <<65595, 65595>>, <<65598, 65598>>,
    <<65614, 65615>>, <<65630, 65663>>, <<65787, 65791>>, <<65795, 65798>>, <<65844, 65846>>,
    <<65935, 65935>>, <<65949, 65951>>, <<65953, 65999>>, <<66046, 66175>>, <<66205, 66207>>,
    <<66257, 66271>>, <<66300, 66303>>, <<66340, 66348>>, <<66379, 66383>>, <<66427, 66431>>,
    <<66462, 66462>>, <<66500, 66503>>, <<66518, 66559>>, <<66718, 66719>>, <<66730, 66735>>,
    <<66772, 66775>>, <<66812, 66815>>, <<66856, 66863>>, <<66916, 66926>>, <<66939, 66939>>,
    <<66955, 66955>>, <<66963, 66963>>, <<66966, 66966>>, <<66978, 66978>>, <<66994, 66994>>,
    <<67002, 67002>>, <<67005, 67071>>, <<67383, 67391>>, <<67414, 67423>>, <<67432, 67455>>,
    <<67462, 67462>>, <<67505, 67505>>, <<67515, 67583>>, <<67590, 67591>>, <<67593, 67593>>,
    <<67638, 67638>>, <<67641, 67643>>, <<67645, 67646>>, <<67670, 67670>>, <<67743, 67750>>,
    <<67760, 67807>>, <<67827, 67827>>, <<67830, 67834>>, <<67868, 67870>>, <<67898, 67902>>,
    <<67904, 67967>>, <<68024, 68027>>, <<68048, 68049>>, <<68100, 68100>>, <<68103, 68107>>,
    <<68116, 68116>>, <<68120, 68120>>, <<68150, 68151>>, <<68155, 68158>>, <<68169, 68175>>,
    <<68185, 68191>>, <<68256, 68287>>, <<68327, 68330>>, <<68343, 68351>>, <<68406, 68408>>,
    <<68438, 68439>>, <<68467, 68471>>, <<68498, 68504>>, <<68509, 68520>>, <<68528, 68607>>,
    <<68681, 68735>>, <<68787, 68799>>, <<68851, 68857>>, <<68904, 68911>>, <<68922, 69215>>,
    <<69247, 69247>>, <<69290, 69290>>, <<69294, 69295>>, <<69298, 69375>>, <<69416, 69423>>,
    <<69466, 69487>>, <<69514, 69551>>, <<69580, 69599>>, <<69623, 69631>>, <<69710, 69713>>,
    <<69750, 69758>>, <<69821, 69821>>, <<69827, 69839>>, <<69865, 69871>>, <<69882, 69887>>,
    <<69941, 69941>>, <<69960, 69967>>, <<70007, 70015>>, <<70112, 70112>>, <<70133, 70143>>,
    <<70162, 70162>>, <<70207, 70271>>, <<70279, 70279>>, <<70281, 70281>>, <<70286, 70286>>,
    <<70302, 70302>>, <<70314, 70319>>, <<70379, 70383>>, <<70394, 70399>>, <<70404, 70404>>,
    <<70413, 70414>>, <<70417, 70418>>, <<70441, 70441>>, <<70449, 70449>>, <<70452, 70452>>,
    <<70458, 70458>>, <<70469, 70470>>, <<70473, 70474>>, <<70478, 70479>>, <<70481, 70486>>,
    <<70488, 70492>>, <<70500, 70501>>, <<70509, 70511>>, <<70517, 70655>>, <<70748, 70748>>,
    <<70754, 70783>>, <<70856, 70863>>, <<70874, 71039>>, <<71094, 71095>>, <<71134, 71167>>,
    <<71237, 71247>>, <<71258, 71263>>, <<71277, 71295>>, <<71354, 71359>>, <<71370, 71423>>,
    <<71451, 71452>>, <<71468, 71471>>, <<71495, 71679>>, <<71740, 71839>>, <<71923, 71934>>,
    <<71943, 71944>>, <<71946, 71947>>, <<71956, 71956>>, <<71959, 71959>>, <<71990, 71990>>,
    <<71993, 71994>>, <<72007, 72015>>, <<72026, 72095>>, <<72104, 72105>>, <<72152, 72153>>,
    <<72165, 72191>>, <<72264, 72271>>, <<72355, 72367>>, <<72441, 72703>>, <<72713, 72713>>,
    <<72759, 72759>>, <<72774, 72783>>, <<72813, 72815>>, <<72848, 72849>>, <<72872, 72872>>,
    <<72887, 72959>>, <<72967, 72967>>, <<72970, 72970>>, <<73015, 73017>>, <<73019, 73019>>,
    <<73022, 73022>>, <<73032, 73039>>, <<73050, 73055>>, <<73062, 73062>>, <<73065, 73065>>,
    <<73103, 73103>>, <<73106, 73106>>, <<73113, 73119>>, <<73130, 73439>>, <<73465, 73647>>,
    <<73649, 73663>>, <<73714, 73726>>, <<74650, 74751>>, <<74863, 74863>>, <<74869, 74879>>,
    <<75076, 77711>>, <<77811, 77823>>, <<78895, 82943>>, <<83527, 92159>>, <<92729, 92735>>,
    <<92767, 92767>>, <<92778, 92781>>, <<92863, 92863>>, <<92874, 92879>>, <<92910, 92911>>,
    <<92918, 92927>>, <<92998, 93007>>, <<93018, 93018>>, <<93026, 93026>>, <<93048, 93052>>,
    <<93072, 93759>>, <<93851, 93951>>, <<94027, 94030>>, <<94088, 94094>>, <<94112, 94175>>,
    <<94181, 94191>>, <<94194, 94207>>, <<100344, 100351>>, <<101590, 101631>>, <<101641, 110575>>,
    <<110580, 110580>>, <<110588, 110588>>, <<110591, 110591>>, <<110883, 110927>>, <<110931, 110947>>,
    <<110952, 110959>>, <<111356, 113663>>, <<113771, 113775>>, <<113789, 113791>>, <<113801, 113807>>,
    <<113818, 113819>>, <<113824, 118527>>, <<118574, 118575>>, <<118599, 118607>>, <<118724, 118783>>,
    <<119030, 119039>>, <<119079, 119080>>, <<119155, 119162>>, <<119275, 119295>>, <<119366, 119519>>,
    <<119540, 119551>>, <<119639, 119647>>, <<119673, 119807>>, <<119893, 119893>>, <<119965, 119965>>,
    <<119968, 119969>>, <<119971, 119972>>, <<119975, 119976>>, <<119981, 119981>>, <<119994, 119994>>,
    <<119996, 119996>>, <<120004, 120004>>, <<120070, 120070>>, <<120075, 120076>>, <<120085, 120085>>,
    <<120093, 120093>>, <<120122, 120122>>, <<120127, 120127>>, <<120133, 120133>>, <<120135, 120137>>,
    <<120145, 120145>>, <<120486, 120487>>, <<120780, 120781>>, <<121484, 121498>>, <<121504, 121504>>,
    <<121520, 122623>>, <<122655, 122879>>, <<122887, 122887>>, <<122905, 122906>>, <<122914, 122914>>,
    <<122917, 122917>>, <<122923, 123135>>, <<123181, 123183>>, <<123198, 123199>>, <<123210, 123213>>,
    <<123216, 123535>>, <<123567, 123583>>, <<123642, 123646>>, <<123648, 124895>>, <<124903, 124903>>,
    <<124908, 124908>>, <<124911, 124911>>, <<124927, 124927>>, <<125125, 125126>>, <<125143, 125183>>,
    <<125260, 125263>>, <<125274, 125277>>, <<125280, 126064>>, <<126133, 126208>>, <<126270, 126463>>,
    <<126468, 126468>>, <<126496, 126496>>, <<126499, 126499>>, <<126501, 126502>>, <<126504, 126504>>,
    <<126515, 126515>>, <<126520, 126520>>, <<126522, 126522>>, <<126524, 126529>>, <<126531, 126534>>,
    <<126536, 126536>>, <<126538, 126538>>, <<126540, 126540>>, <<126544, 126544>>, <<126547, 126547>>,
    <<126549, 126550>>, <<126552, 126552>>, <<126554, 126554>>, <<126556, 126556>>, <<126558, 126558>>,
    <<126560, 126560>>, <<126563, 126563>>, <<126565, 126566>>, <<126571, 126571>>, <<126579, 126579>>,
    <<126584, 126584>>, <<126589, 126589>>, <<126591, 126591>>, <<126602, 126602>>, <<126620, 126624>>,
    <<126628, 126628>>, <<126634, 126634>>, <<126652, 126703>>, <<126706, 126975>>, <<127020, 127023>>,
    <<127124, 127135>>, <<127151, 127152>>, <<127168, 127168>>, <<127184, 127184>>, <<127222, 127231>>,
    <<127406, 127461>>, <<127491, 127503>>, <<127548, 127551>>, <<127561, 127567>>, <<127570, 127583>>,
    <<127590, 127743>>, <<128728, 128732>>, <<128749, 128751>>, <<128765, 128767>>, <<128884, 128895>>,
    <<128985, 128991>>, <<129004, 129007>>, <<129009, 129023>>, <<129036, 129039>>, <<129096, 129103>>,
    <<129114, 129119>>, <<129160, 129167>>, <<129198, 129199>>, <<129202, 129279>>, <<129620, 129631>>,
    <<129646, 129647>>, <<129653, 129655>>, <<129661, 129663>>, <<129671, 129679>>, <<129709, 129711>>,
    <<129723, 129727>>, <<129734, 129743>>, <<129754, 129759>>, <<129768, 129775>>, <<129783, 129791>>,
    <<129939, 129939>>, <<129995, 130031>>, <<130042, 131071>>, <<173792, 173823>>, <<177977, 177983>>,
    <<178206, 178207>>, <<183970, 183983>>, <<191457, 194559>>, <<195102, 196607>>, <<201547, 917759>>,
    <<918000, 1114111>>
>>

\* str.isprintable for one character.
IsPrintable(c) ==
    \A i \in DOMAIN NonPrintableRanges :
        c < NonPrintableRanges[i][1] \/ c > NonPrintableRanges[i][2]

\* The digits of '{:02x}'.format(n), n < 256.
Hex2(n) == << HexDigit(n \div 16), HexDigit(n % 16) >>

\* What repr writes for one character inside the quote character q.
repr_char(c, q) ==
    CASE c = q \/ c = 92 -> <<92, c>>
      [] c = 9 -> <<92, 116>>
      [] c = 10 -> <<92, 110>>
      [] c = 13 -> <<92, 114>>
      [] IsPrintable(c) -> <<c>>
      [] c < 256 -> <<92, 120>> \o Hex2(c)
      [] c < 65536 -> <<92, 117>> \o Hex4(c)
      [] OTHER -> <<92, 85>> \o Hex4(c \div 65536) \o Hex4(c % 65536)

RECURSIVE repr_chars(_, _)
repr_chars(s, q) ==
    IF Len(s) = 0 THEN <<>>
    ELSE repr_char(Head(s), q) \o repr_chars(Tail(s), q)

\* repr(s): single quotes, unless s holds an apostrophe and no double quote.
py_repr(s) ==
    LET has(ch) == \E i \in DOMAIN s : s[i] = ch
        q == IF has(39) /\ ~has(34) THEN 34 ELSE 39
    IN <<q>> \o repr_chars(s, q) \o <<q>>


------------------------------------------------------------------------------
\* The environment: clipboard, file system, config.yaml, the engine

\* What ImageGrab.grabclipboard() finds.
ClipboardStates == {"image", "empty", "unsupported"}

\* What Image.open(path) finds at the path.
FileStates == {"image", "missing", "not_image"}

\* config.yaml beside the script: absent, unreadable, or present with a text.
ConfigTexts == {
    "",
    "- a",
    "pix2text: [",
    "{}",
    "pix2text: {device: cpu}\ntext_formula_resized_shape: 768",
    "pix2text: {device: cpu}",
    "text_formula_resized_shape: 768",
    "pix2text:\ntext_formula_resized_shape: 768"
}
ConfigFiles == {[state |-> "absent", text |-> ""], [state |-> "unreadable", text |-> ""]}
               \cup {[state |-> "present", text |-> t] : t \in ConfigTexts}

\* Texts yaml.safe_load rejects with a YAMLError.
yaml_raises(text) == text = "pix2text: ["

\* yaml.safe_load on the texts above that parse.
yaml_safe_load(text) ==
    CASE text = "" -> PyNone
      [] text = "- a" -> PyList
      [] text = "{}" -> PyDict(<<>>)
      [] text = "pix2text: {device: cpu}\ntext_formula_resized_shape: 768" ->
            PyDict(<< <<"pix2text", PyDict(<< <<"device", PyStr(Codes("cpu"))>> >>)>>,
                      <<"text_formula_resized_shape", PyInt(768)>> >>)
      [] text = "pix2text: {device: cpu}" ->
            PyDict(<< <<"pix2text", PyDict(<< <<"device", PyStr(Codes("cpu"))>> >>)>> >>)
      [] text = "text_formula_resized_shape: 768" ->
            PyDict(<< <<"text_formula_resized_shape", PyInt(768)>> >>)
      [] text = "pix2text:\ntext_formula_resized_shape: 768" ->
            PyDict(<< <<"pix2text", PyNone>>,
                      <<"text_formula_resized_shape", PyInt(768)>> >>)

\* Outcomes of Pix2Text.from_config(**options): the engine, or an exception.
CtorOutcomes == {NoExc, Exc("FileNotFoundError", Codes("model file not found"))}

\* Outcomes of p2t.recognize_text_formula(..., return_text=True): a string
\* (empty when nothing is recognised), or an exception.  The last string is
\* "a", TAB, U+4E2D, U+1F600.
EngineStrings == {<<>>, Codes("x^2"), Codes("\\frac{a}{b}"), <<97, 9, 20013, 128512>>}
EngineErrors == {Exc("RuntimeError", Codes("bad \"input\""))}

\* The resized shape used when the configuration gives none.
DefaultShape == 608

\* The fallback of load_config.
DefaultConfig == PyDict(<< <<"pix2text", PyDict(<<>>)>>,
                           <<"text_formula_resized_shape", PyInt(DefaultShape)>> >>)

\* load_config(): the parsed file, or the fallback when opening or parsing raises.
load_config(file) ==
    IF file.state # "present" \/ yaml_raises(file.text)
    THEN DefaultConfig
    ELSE yaml_safe_load(file.text)

------------------------------------------------------------------------------
VARIABLES
    argv,        \* sys.argv
    pc,          \* position in the script
    fn,          \* the process_* function running: "none", "clipboard", "file"
    clipboard,   \* clipboard state seen by grabclipboard ("unseen" before)
    fileState,   \* state of the path seen by Image.open ("unseen" before)
    cfgFile,     \* config.yaml as seen by load_config
    image,       \* local `image`
    config,      \* local `config`
    p2t,         \* local `p2t`
    ctorKwargs,  \* keyword arguments from_config was called with
    shapeArg,    \* resized_shape the engine was called with
    latex_result,\* local `latex_result`
    exc,         \* exception raised inside the try block, if any
    excAt,       \* step that raised it: "none", "acquire", "config", "construct", "call"
    result,      \* local `result` of main (the dict a process_* function returned)
    stdout,      \* lines written to standard output
    printed,     \* the dicts handed to json.dumps, one per line of stdout
    exitCode,    \* process exit status; -1 while running
    trace        \* steps performed so far, in order

vars == <<argv, pc, fn, clipboard, fileState, cfgFile, image, config, p2t,
          ctorKwargs, shapeArg, latex_result, exc, excAt, result, stdout,
          printed, exitCode, trace>>

NoFile == [state |-> "unseen", text |-> ""]

Init ==
    /\ argv \in Argvs
    /\ pc = "main"
    /\ fn = "none"
    /\ clipboard = "unseen"
    /\ fileState = "unseen"
    /\ cfgFile = NoFile
    /\ image = Unset
    /\ config = Unset
    /\ p2t = Unset
    /\ ctorKwargs = Unset
    /\ shapeArg = Unset
    /\ latex_result = Unset
    /\ exc = NoExc
    /\ excAt = "none"
    /\ result = <<>>
    /\ stdout = <<>>
    /\ printed = <<>>
    /\ exitCode = -1
    /\ trace = <<>>

------------------------------------------------------------------------------
\* Variant of MainNoCommand that reports the missing command with status 0.
MainNoCommand_ExitZero ==
    /\ pc = "main"
    /\ Len(argv) < 2
    /\ stdout' = Append(stdout, json_dumps(<< <<"error", PyStr(Codes("No command specified"))>> >>))
    /\ printed' = Append(printed, << <<"error", PyStr(Codes("No command specified"))>> >>)
    /\ exitCode' = 0
    /\ pc' = "exited"
    /\ trace' = trace \o <<"dispatch", "print">>
    /\ UNCHANGED <<argv, fn, clipboard, fileState, cfgFile, image, config, p2t,
                   ctorKwargs, shapeArg, latex_result, exc, excAt, result>>

\* main, lines 72-74: no command on the command line.
MainNoCommand ==
    /\ pc = "main"
    /\ Len(argv) < 2
    /\ stdout' = Append(stdout, json_dumps(<< <<"error", PyStr(Codes("No command specified"))>> >>))
    /\ printed' = Append(printed, << <<"error", PyStr(Codes("No command specified"))>> >>)
    /\ exitCode' = 1
    /\ pc' = "exited"
    /\ trace' = trace \o <<"dispatch", "print">>
    /\ UNCHANGED <<argv, fn, clipboard, fileState, cfgFile, image, config, p2t,
                   ctorKwargs, shapeArg, latex_result, exc, excAt, result>>

\* Variant of MainDispatch whose final branch falls back to the clipboard
\* instead of reporting an unknown command.
MainDispatch_DefaultsToClipboard ==
    /\ pc = "main"
    /\ Len(argv) >= 2
    /\ LET command == argv[2] IN
         IF command = Codes("file") /\ Len(argv) > 2
         THEN fn' = "file"
         ELSE fn' = "clipboard"
    /\ pc' = "acquire"
    /\ trace' = Append(trace, "dispatch")
    /\ UNCHANGED <<argv, clipboard, fileState, cfgFile, image, config, p2t,
                   ctorKwargs, shapeArg, latex_result, exc, excAt, result,
                   stdout, printed, exitCode>>

\* Variant of MainDispatch that loads the configuration while dispatching,
\* before any image is acquired.
MainDispatch_LoadsConfigFirst ==
    /\ pc = "main"
    /\ Len(argv) >= 2
    /\ LET command == argv[2] IN
         IF command = Codes("clipboard") \/ (command = Codes("file") /\ Len(argv) > 2)
         THEN /\ fn' = (IF command = Codes("clipboard") THEN "clipboard" ELSE "file")
              /\ pc' = "acquire"
              /\ result' = result
              /\ \E file \in ConfigFiles :
                   /\ cfgFile' = file
                   /\ config' = load_config(file)
              /\ trace' = trace \o <<"dispatch", "load_config">>
         ELSE /\ fn' = fn
              /\ pc' = "print"
              /\ result' = << <<"error", PyStr(Codes("Unknown command: ") \o command)>> >>
              /\ trace' = Append(trace, "dispatch")
              /\ UNCHANGED <<cfgFile, config>>
    /\ UNCHANGED <<argv, clipboard, fileState, image, p2t, ctorKwargs, shapeArg,
                   latex_result, exc, excAt, stdout, printed, exitCode>>

\* main, lines 76-84: dispatch on sys.argv[1].
MainDispatch ==
    /\ pc = "main"
    /\ Len(argv) >= 2
    /\ LET command == argv[2] IN
         IF command = Codes("clipboard")
         THEN /\ fn' = "clipboard"
              /\ pc' = "acquire"
              /\ result' = result
         ELSE IF command = Codes("file") /\ Len(argv) > 2
         THEN /\ fn' = "file"
              /\ pc' = "acquire"
              /\ result' = result
         ELSE /\ fn' = fn
              /\ pc' = "print"
              /\ result' = << <<"error", PyStr(Codes("Unknown command: ") \o command)>> >>
    /\ trace' = Append(trace, "dispatch")
    /\ UNCHANGED <<argv, clipboard, fileState, cfgFile, image, config, p2t,
                   ctorKwargs, shapeArg, latex_result, exc, excAt, stdout,
                   printed, exitCode>>

\* Variant of GrabClipboard without the `image is None` check.
GrabClipboard_NoNoneCheck ==
    /\ pc = "acquire"
    /\ fn = "clipboard"
    /\ \E c \in ClipboardStates :
         /\ clipboard' = c
         /\ CASE c = "image" ->
                   /\ image' = PyImage
                   /\ pc' = "load_config"
                   /\ UNCHANGED <<exc, excAt>>
              [] c = "empty" ->
                   /\ image' = PyNone
                   /\ pc' = "load_config"
                   /\ UNCHANGED <<exc, excAt>>
              [] c = "unsupported" ->
                   /\ exc' = Exc("NotImplementedError",
                                 Codes("ImageGrab.grabclipboard() is macOS and Windows only"))
                   /\ excAt' = "acquire"
                   /\ pc' = "except"
                   /\ UNCHANGED image
    /\ trace' = Append(trace, "acquire")
    /\ UNCHANGED <<argv, fn, fileState, cfgFile, config, p2t, ctorKwargs,
                   shapeArg, latex_result, result, stdout, printed, exitCode>>

\* process_clipboard_image, lines 28-30: grab the clipboard image.
GrabClipboard ==
    /\ pc = "acquire"
    /\ fn = "clipboard"
    /\ \E c \in ClipboardStates :
         /\ clipboard' = c
         /\ CASE c = "image" ->
                   /\ image' = PyImage
                   /\ pc' = "load_config"
                   /\ UNCHANGED <<result, exc, excAt>>
              [] c = "empty" ->
                   /\ image' = PyNone
                   /\ result' = << <<"error", PyStr(Codes("No image found in clipboard"))>> >>
                   /\ pc' = "print"
                   /\ UNCHANGED <<exc, excAt>>
              [] c = "unsupported" ->
                   /\ exc' = Exc("NotImplementedError",
                                 Codes("ImageGrab.grabclipboard() is macOS and Windows only"))
                   /\ excAt' = "acquire"
                   /\ pc' = "except"
                   /\ UNCHANGED <<image, result>>
    /\ trace' = Append(trace, "acquire")
    /\ UNCHANGED <<argv, fn, fileState, cfgFile, config, p2t, ctorKwargs,
                   shapeArg, latex_result, stdout, printed, exitCode>>

\* Variant of ImageOpen that does not fail on an unopenable path but hands
\* the path on as if it were an image.
ImageOpen_NoFailure ==
    /\ pc = "acquire"
    /\ fn = "file"
    /\ \E f \in FileStates :
         /\ fileState' = f
         /\ image' = PyImage
         /\ pc' = "load_config"
    /\ trace' = Append(trace, "acquire")
    /\ UNCHANGED <<argv, fn, clipboard, cfgFile, config, p2t, ctorKwargs,
                   shapeArg, latex_result, exc, excAt, result, stdout, printed,
                   exitCode>>

\* process_image_file, line 52: open the image at sys.argv[2].
ImageOpen ==
    /\ pc = "acquire"
    /\ fn = "file"
    /\ LET image_path == argv[3] IN
       \E f \in FileStates :
         /\ fileState' = f
         /\ CASE f = "image" ->
                   /\ image' = PyImage
                   /\ pc' = "load_config"
                   /\ UNCHANGED <<exc, excAt>>
              [] f = "missing" ->
                   /\ exc' = Exc("FileNotFoundError",
                                 Codes("[Errno 2] No such file or directory: ")
                                    \o py_repr(image_path))
                   /\ excAt' = "acquire"
                   /\ pc' = "except"
                   /\ UNCHANGED image
              [] f = "not_image" ->
                   /\ exc' = Exc("UnidentifiedImageError",
                                 Codes("cannot identify image file ") \o py_repr(image_path))
                   /\ excAt' = "acquire"
                   /\ pc' = "except"
                   /\ UNCHANGED image
    /\ trace' = Append(trace, "acquire")
    /\ UNCHANGED <<argv, fn, clipboard, cfgFile, config, p2t, ctorKwargs,
                   shapeArg, latex_result, result, stdout, printed, exitCode>>

\* Lines 33 and 55: config = load_config().
LoadConfig ==
    /\ pc = "load_config"
    /\ \E file \in ConfigFiles :
         /\ cfgFile' = file
         /\ config' = load_config(file)
    /\ pc' = "from_config"
    /\ trace' = Append(trace, "load_config")
    /\ UNCHANGED <<argv, fn, clipboard, fileState, image, p2t, ctorKwargs,
                   shapeArg, latex_result, exc, excAt, result, stdout, printed,
                   exitCode>>

\* Lines 34 and 56: p2t = Pix2Text.from_config(**config.get("pix2text", {})).
FromConfig ==
    /\ pc = "from_config"
    /\ IF config.type # "dict"
       THEN \* config.get raises: the parsed file is not a mapping
            /\ exc' = Exc("AttributeError",
                          Codes("'" \o TypeName(config) \o "' object has no attribute 'get'"))
            /\ excAt' = "config"
            /\ pc' = "except"
            /\ UNCHANGED <<p2t, ctorKwargs, trace>>
       ELSE LET options == dict_get(config.items, "pix2text", PyDict(<<>>)) IN
            IF options.type # "dict"
            THEN \* ** of something that is not a mapping
                 /\ exc' = Exc("TypeError",
                               Codes("pix2text.pix2text.Pix2Text.from_config() argument after ** must be a mapping, not "
                                  \o TypeName(options)))
                 /\ excAt' = "config"
                 /\ pc' = "except"
                 /\ UNCHANGED <<p2t, ctorKwargs, trace>>
            ELSE /\ ctorKwargs' = options
                 /\ trace' = Append(trace, "construct")
                 /\ \E o \in CtorOutcomes :
                      IF o.raised
                      THEN /\ exc' = o
                           /\ excAt' = "construct"
                           /\ pc' = "except"
                           /\ UNCHANGED p2t
                      ELSE /\ p2t' = PyEngine
                           /\ pc' = "recognize"
                           /\ UNCHANGED <<exc, excAt>>
    /\ UNCHANGED <<argv, fn, clipboard, fileState, cfgFile, image, config,
                   shapeArg, latex_result, result, stdout, printed, exitCode>>

\* Variant of Recognize that strips the engine's string of its backslashes
\* before returning it.
Recognize_StripsBackslash ==
    /\ pc = "recognize"
    /\ shapeArg' = dict_get(config.items, "text_formula_resized_shape", PyInt(DefaultShape))
    /\ trace' = Append(trace, "call")
    /\ \/ \E s \in EngineStrings :
            /\ latex_result' = PyStr(s)
            /\ result' = << <<"success", PyTrue>>,
                            <<"latex", PyStr(IF Len(s) > 0 /\ Head(s) = 92
                                             THEN Tail(s) ELSE s)>> >>
            /\ pc' = "print"
            /\ UNCHANGED <<exc, excAt>>
       \/ \E e \in EngineErrors :
            /\ exc' = e
            /\ excAt' = "call"
            /\ pc' = "except"
            /\ UNCHANGED <<latex_result, result>>
    /\ UNCHANGED <<argv, fn, clipboard, fileState, cfgFile, image, config, p2t,
                   ctorKwargs, stdout, printed, exitCode>>

\* Lines 37-42 and 59-64: call the engine and build the success result.
Recognize ==
    /\ pc = "recognize"
    /\ shapeArg' = dict_get(config.items, "text_formula_resized_shape", PyInt(DefaultShape))
    /\ trace' = Append(trace, "call")
    /\ \/ \E s \in EngineStrings :
            /\ latex_result' = PyStr(s)
            /\ result' = << <<"success", PyTrue>>, <<"latex", PyStr(s)>> >>
            /\ pc' = "print"
            /\ UNCHANGED <<exc, excAt>>
       \/ \E e \in EngineErrors :
            /\ exc' = e
            /\ excAt' = "call"
            /\ pc' = "except"
            /\ UNCHANGED <<latex_result, result>>
    /\ UNCHANGED <<argv, fn, clipboard, fileState, cfgFile, image, config, p2t,
                   ctorKwargs, stdout, printed, exitCode>>

\* Variant of Except that prints the error itself before returning it.
Except_PrintsToo ==
    /\ pc = "except"
    /\ exc.raised
    /\ result' = << <<"error", PyStr(exc.msg)>> >>
    /\ stdout' = Append(stdout, json_dumps(<< <<"error", PyStr(exc.msg)>> >>))
    /\ printed' = Append(printed, << <<"error", PyStr(exc.msg)>> >>)
    /\ pc' = "print"
    /\ UNCHANGED <<argv, fn, clipboard, fileState, cfgFile, image, config, p2t,
                   ctorKwargs, shapeArg, latex_result, exc, excAt, exitCode,
                   trace>>

\* Variant of Except that reports the exception's class name, not its message.
Except_ClassName ==
    /\ pc = "except"
    /\ exc.raised
    /\ result' = << <<"error", PyStr(Codes(exc.cls))>> >>
    /\ pc' = "print"
    /\ UNCHANGED <<argv, fn, clipboard, fileState, cfgFile, image, config, p2t,
                   ctorKwargs, shapeArg, latex_result, exc, excAt, stdout,
                   printed, exitCode, trace>>

\* Variant of Except that returns {"success": true, "error": str(e)}.
Except_KeepsSuccess ==
    /\ pc = "except"
    /\ exc.raised
    /\ result' = << <<"success", PyTrue>>, <<"error", PyStr(exc.msg)>> >>
    /\ pc' = "print"
    /\ UNCHANGED <<argv, fn, clipboard, fileState, cfgFile, image, config, p2t,
                   ctorKwargs, shapeArg, latex_result, exc, excAt, stdout,
                   printed, exitCode, trace>>

\* Lines 44-45 and 66-67: except Exception as e: return {"error": str(e)}.
Except ==
    /\ pc = "except"
    /\ exc.raised
    /\ result' = << <<"error", PyStr(exc.msg)>> >>
    /\ pc' = "print"
    /\ UNCHANGED <<argv, fn, clipboard, fileState, cfgFile, image, config, p2t,
                   ctorKwargs, shapeArg, latex_result, exc, excAt, stdout,
                   printed, exitCode, trace>>

\* main, line 87: print(json.dumps(result)); main returns and the process exits 0.
MainPrint ==
    /\ pc = "print"
    /\ stdout' = Append(stdout, json_dumps(result))
    /\ printed' = Append(printed, result)
    /\ exitCode' = 0
    /\ pc' = "done"
    /\ trace' = Append(trace, "print")
    /\ UNCHANGED <<argv, fn, clipboard, fileState, cfgFile, image, config, p2t,
                   ctorKwargs, shapeArg, latex_result, exc, excAt, result>>

Next ==
    \/ MainNoCommand
    \/ MainDispatch
    \/ GrabClipboard
    \/ ImageOpen
    \/ LoadConfig
    \/ FromConfig
    \/ Recognize
    \/ Except
    \/ MainPrint

Spec == Init /\ [][Next]_vars

------------------------------------------------------------------------------
\* Shared vocabulary of the properties

\* The process has ended (main returned, or sys.exit was called).
Terminated == pc \in {"done", "exited"}

\* The command line names no resolvable command.
NoCommand == Len(argv) < 2
UnknownCommand ==
    /\ Len(argv) >= 2
    /\ argv[2] # Codes("clipboard")
    /\ ~(argv[2] = Codes("file") /\ Len(argv) > 2)

\* Neither the configuration nor the engine has been reached.
ConfigAndEngineUntouched ==
    /\ cfgFile = NoFile
    /\ config = Unset
    /\ p2t = Unset
    /\ ctorKwargs = Unset
    /\ shapeArg = Unset
    /\ latex_result = Unset
    /\ \A i \in DOMAIN trace : trace[i] \notin {"load_config", "construct", "call"}

\* No image acquisition was attempted.
NoAcquisition ==
    /\ clipboard = "unseen"
    /\ fileState = "unseen"
    /\ image = Unset
    /\ \A i \in DOMAIN trace : trace[i] # "acquire"

\* Position of a step in the documented control flow.
StepRank(step) ==
    CASE step = "dispatch" -> 1
      [] step = "acquire" -> 2
      [] step = "load_config" -> 3
      [] step = "construct" -> 4
      [] step = "call" -> 5
      [] step = "print" -> 6

Performed(step) == \E i \in DOMAIN trace : trace[i] = step

\* The run is not stuck: the statement at the current position can execute
\* (its operands are assigned), so the run proceeds to the print.
CanProceed ==
    CASE pc = "main" -> Len(argv) >= 1
      [] pc = "acquire" -> fn = "clipboard" \/ (fn = "file" /\ Len(argv) > 2)
      [] pc = "load_config" -> image = PyImage
      [] pc = "from_config" -> config # Unset
      [] pc = "recognize" -> config.type = "dict" /\ p2t = PyEngine
      [] pc = "except" -> exc.raised
      [] pc = "print" -> result # <<>>
      [] OTHER -> FALSE

------------------------------------------------------------------------------
\* C1: every invocation prints exactly one JSON object: nothing is printed
\* twice, a run that has not ended can always take its next step, and a run
\* that has ended has printed exactly one line, the serialisation of one dict.
C1_ExactlyOneObject ==
    /\ Len(stdout) <= 1
    /\ ~Terminated => (Len(stdout) = 0 /\ CanProceed)
    /\ Terminated => (Len(stdout) = 1 /\ Len(printed) = 1
                      /\ SubSeq(stdout[1], 1, 2) = Codes("{\"")
                      /\ stdout[1][Len(stdout[1])] = Ord("}")
                      /\ \A i \in DOMAIN stdout[1] : stdout[1][i] >= 32 /\ stdout[1][i] <= 126)

C1_Witness ==
    /\ pc = "done"
    /\ excAt = "construct"
    /\ Len(stdout) = 1

\* C2: an unknown or missing command yields an error object and leaves image,
\* configuration and engine untouched.
C2_UnknownCommandError ==
    (NoCommand \/ UnknownCommand) =>
        /\ NoAcquisition
        /\ ConfigAndEngineUntouched
        /\ (Terminated /\ NoCommand) =>
              /\ Len(printed) = 1
              /\ dict_keys(printed[1]) = {"error"}
        /\ (Terminated /\ UnknownCommand) =>
              /\ printed = << << <<"error", PyStr(Codes("Unknown command: ") \o argv[2])>> >> >>
              /\ stdout = << Codes("{\"error\": \"Unknown command: ")
                             \o json_escape(argv[2]) \o Codes("\"}") >>

C2_Witness ==
    /\ pc = "done"
    /\ argv = <<Script, Codes("file")>>
    /\ stdout = << Codes("{\"error\": \"Unknown command: file\"}") >>

\* C3: clipboard command with no image in the clipboard prints exactly
\* {"error": "No image found in clipboard"} and never reaches configuration
\* or engine.
C3_EmptyClipboard ==
    clipboard = "empty" =>
        /\ ConfigAndEngineUntouched
        /\ Terminated =>
              /\ printed = << << <<"error", PyStr(Codes("No image found in clipboard"))>> >> >>
              /\ stdout = << Codes("{\"error\": \"No image found in clipboard\"}") >>

C3_Witness ==
    /\ pc = "done"
    /\ fn = "clipboard"
    /\ clipboard = "empty"
    /\ Len(stdout) = 1

\* The engine options and resized shape the configuration file supplies, where
\* it supplies a usable one; the defaults otherwise.
UsableOptions(file) ==
    IF file.state = "present" /\ ~yaml_raises(file.text)
       /\ yaml_safe_load(file.text).type = "dict"
       /\ dict_has(yaml_safe_load(file.text).items, "pix2text")
       /\ dict_get(yaml_safe_load(file.text).items, "pix2text", PyNone).type = "dict"
    THEN dict_get(yaml_safe_load(file.text).items, "pix2text", PyNone)
    ELSE PyDict(<<>>)

UsableShape(file) ==
    IF file.state = "present" /\ ~yaml_raises(file.text)
       /\ yaml_safe_load(file.text).type = "dict"
       /\ dict_has(yaml_safe_load(file.text).items, "text_formula_resized_shape")
    THEN dict_get(yaml_safe_load(file.text).items, "text_formula_resized_shape", PyNone)
    ELSE PyInt(DefaultShape)

\* C4: whatever the state of the configuration file, once an image has been
\* acquired the engine is constructed (and, when construction succeeds, called)
\* with the file's usable values or the defaults, and no error raised by the
\* use of the configuration reaches the printed result.
C4_ConfigNeverSurfaced ==
    (Terminated /\ image = PyImage) =>
        /\ excAt # "config"
        /\ Performed("construct")
        /\ ctorKwargs = UsableOptions(cfgFile)
        /\ p2t = PyEngine => (Performed("call") /\ shapeArg = UsableShape(cfgFile))

\* C5 as stated: when the engine call returns, the printed object has
\* success true and a non-empty latex string, the one the engine returned.
C5_NonEmptyLatex ==
    (Terminated /\ latex_result # Unset) =>
        /\ printed = << << <<"success", PyTrue>>, <<"latex", latex_result>> >> >>
        /\ latex_result.s # <<>>

\* C5 amended: when the engine call returns, the printed object is
\* {"success": true, "latex": <the string the engine returned>}, whether or
\* not that string is empty.
C5_LatexIsEngineString ==
    (Terminated /\ latex_result # Unset) =>
        /\ printed = << << <<"success", PyTrue>>, <<"latex", latex_result>> >> >>
        /\ stdout = << Codes("{\"success\": true, \"latex\": \"")
                          \o json_escape(latex_result.s) \o Codes("\"}") >>

C5_Witness ==
    /\ pc = "done"
    /\ image = PyImage
    /\ latex_result = PyStr(<<97, 9, 20013, 128512>>)
    /\ stdout = << Codes("{\"success\": true, \"latex\": \"a\\t\\u4e2d\\ud83d\\ude00\"}") >>

\* C6 as stated: an exception raised while processing a command ends in a
\* printed error object carrying the message and a traceback.
C6_ErrorAndTraceback ==
    (Terminated /\ exc.raised) =>
        /\ Len(printed) = 1
        /\ dict_get(printed[1], "error", PyNone) = PyStr(exc.msg)
        /\ dict_has(printed[1], "traceback")

\* C6 amended: an exception raised while processing a command is converted
\* into the error object {"error": <exception message>}, with no traceback;
\* the run goes on to print it and exits with status 0.
C6_ErrorMessageOnly ==
    exc.raised =>
        /\ ~Terminated => CanProceed
        /\ Terminated =>
              /\ printed = << << <<"error", PyStr(exc.msg)>> >> >>
              /\ ~dict_has(printed[1], "traceback")
              /\ exitCode = 0

C6_Witness ==
    /\ pc = "done"
    /\ exc.raised
    /\ excAt = "call"
    /\ stdout = << Codes("{\"error\": \"bad \\\"input\\\"\"}") >>

\* C7: the exit status is 1 exactly when no command argument was supplied;
\* every other run exits 0.
C7_ExitCode ==
    /\ Terminated => exitCode \in {0, 1}
    /\ Terminated => (exitCode = 1 <=> Len(argv) < 2)
    /\ ~Terminated => exitCode = -1

C7_Witness ==
    /\ pc = "exited"
    /\ Len(argv) = 1
    /\ exitCode = 1

\* C8: file command whose image cannot be opened prints an error object with
\* the I/O exception's message, without success or latex, and never reaches
\* configuration or engine.
C8_FileOpenFails ==
    (fn = "file" /\ fileState \in {"missing", "not_image"}) =>
        /\ ConfigAndEngineUntouched
        /\ exc.raised /\ excAt = "acquire"
        /\ fileState = "missing" =>
              exc.msg = Codes("[Errno 2] No such file or directory: ") \o py_repr(argv[3])
        /\ Terminated =>
              /\ Len(printed) = 1
              /\ dict_get(printed[1], "error", PyNone) = PyStr(exc.msg)
              /\ ~dict_has(printed[1], "success")
              /\ ~dict_has(printed[1], "latex")

C8_Witness ==
    /\ pc = "done"
    /\ argv = <<Script, Codes("file"), Codes("it's.png")>>
    /\ fileState = "missing"
    /\ stdout = << Codes("{\"error\": \"[Errno 2] No such file or directory: \\\"it's.png\\\"\"}") >>

\* C9: the steps happen in the order dispatch, acquisition, configuration
\* load, engine construction, engine call, print, each at most once; the
\* configuration is loaded only with an image in hand, the engine is called
\* only after load and construction, and the print is the last step.
C9_StepOrder ==
    /\ \A i, j \in DOMAIN trace : i < j => StepRank(trace[i]) < StepRank(trace[j])
    /\ trace # <<>> => trace[1] = "dispatch"
    /\ Performed("load_config") => (Performed("acquire") /\ image = PyImage)
    /\ Performed("construct") => Performed("load_config")
    /\ Performed("call") => (Performed("construct") /\ p2t = PyEngine)
    /\ Performed("print") <=> Terminated
    /\ Terminated => trace[Len(trace)] = "print"

C9_Witness ==
    /\ pc = "done"
    /\ trace = <<"dispatch", "acquire", "load_config", "construct", "call", "print">>

\* C10: every printed object has exactly one of the keys error and success;
\* success is always true; latex is present exactly when success is.
C10_ErrorXorSuccess ==
    \A i \in DOMAIN printed :
        /\ dict_has(printed[i], "error") # dict_has(printed[i], "success")
        /\ dict_has(printed[i], "success") =>
              dict_get(printed[i], "success", PyNone) = PyTrue
        /\ dict_has(printed[i], "latex") <=> dict_has(printed[i], "success")

C10_Witness ==
    /\ pc = "done"
    /\ fn = "file"
    /\ Len(printed) = 1
    /\ dict_keys(printed[1]) = {"success", "latex"}

====
